---- MODULE Spec2Model ----
(***************************************************************************)
(* The streaming chat session of Ricky: the useChat hook (state, the       *)
(* sendMessage / stopGeneration / clearChat operations, the server-sent-   *)
(* event read loop) and formatApiError.                                    *)
(*                                                                         *)
(* Strings are sequences of tokens: a chunk text "a" is <<"a">>, string    *)
(* concatenation is \o, the empty string is <<>>.  A byte stream is a      *)
(* sequence of tokens too, with "\n" the newline and " " a blank.          *)
(***************************************************************************)
EXTENDS Integers, Sequences, FiniteSets, TLC

\* ------------------------------------------------------------------ bounds

\* sendMessage calls in one session
MaxSends == 3
\* event lines in the stream of a session request
MaxSessionRecs == 2
\* event lines in the stream of the single request of the decoder specification
MaxRecs == 3
\* milliseconds that pass between two sendMessage calls (0: the same millisecond)
MaxGap == 2
\* sendMessage calls in a session whose renders are followed
MaxRenderedSends == 2
\* sendMessage calls in a session driven through the controls of the ChatPanel
MaxPanelSends == 2

VARIABLES
    messages,            \* useState<Message[]>([])
    isLoading,           \* useState(false)
    abortControllerRef,  \* useRef<AbortController | null>(null): 0 is null, r the controller of request r
    req,                 \* one record per sendMessage call: its closure and its position
    nSends,              \* sendMessage calls made so far
    now,                 \* Date.now()
    sent,                \* history: what the server sent each call, and how the call ended
    rendered,            \* the messages of the last render: what the sendMessage of that render closes over
    history,             \* requestData.history of each call
    availableModels,     \* useState<Model[]>([]), as the set of the model names
    selectedModel,       \* useState<string>("")
    modelsPc             \* the fetchModels of the mount effect: "pending" or "done"

\* The state of the model selection.
modelVars == <<availableModels, selectedModel, modelsPc>>

vars == <<messages, isLoading, abortControllerRef, req, nSends, now, sent, rendered, history,
          availableModels, selectedModel, modelsPc>>

\* ------------------------------------------------------------- constants

SuccessSuggestions == <<"Continue this topic", "Ask follow-up", "New question", "Explain more">>

ErrorSuggestions == <<"Try again", "Check connection", "Restart services">>

\* suggestions?: undefined
NoSuggestions == <<>>

\* ------------------------------------------------------------- strings

RECURSIVE Includes(_, _)
\* String.prototype.includes: pat occurs contiguously in s
Includes(s, pat) ==
    IF Len(pat) > Len(s) THEN FALSE
    ELSE IF SubSeq(s, 1, Len(pat)) = pat THEN TRUE
    ELSE Includes(Tail(s), pat)

StartsWith(s, pat) == Len(s) >= Len(pat) /\ SubSeq(s, 1, Len(pat)) = pat

Whitespace == {" ", "\r", "\n"}

RECURSIVE TrimStart(_)
TrimStart(s) == IF s # <<>> /\ Head(s) \in Whitespace THEN TrimStart(Tail(s)) ELSE s

RECURSIVE TrimEnd(_)
TrimEnd(s) ==
    IF s # <<>> /\ s[Len(s)] \in Whitespace THEN TrimEnd(SubSeq(s, 1, Len(s) - 1)) ELSE s

\* String.prototype.trim
Trim(s) == TrimEnd(TrimStart(s))

RECURSIVE SplitLines(_, _)
\* chunk.split("\n"), cur being the piece under construction: the pieces between
\* the newlines, the last one being what follows the last newline (possibly empty)
SplitLines(s, cur) ==
    IF s = <<>> THEN <<cur>>
    ELSE IF Head(s) = "\n" THEN <<cur>> \o SplitLines(Tail(s), <<>>)
    ELSE SplitLines(Tail(s), Append(cur, Head(s)))

\* ------------------------------------------------------------- JSON

\* The objects the backend sends, by the text between the braces; an absent
\* field is undefined, modelled by the falsy value of its type.
JsonBodies == {"chunk:a", "chunk:b", "done:true", "error:overloaded"}

JsonObject(body) ==
    CASE body = "chunk:a" -> [error |-> <<>>, done |-> FALSE, chunk |-> <<"a">>]
      [] body = "chunk:b" -> [error |-> <<>>, done |-> FALSE, chunk |-> <<"b">>]
      [] body = "done:true" -> [error |-> <<>>, done |-> TRUE, chunk |-> <<>>]
      [] body = "error:overloaded" -> [error |-> <<"overloaded">>, done |-> FALSE, chunk |-> <<>>]

\* JSON.parse accepts the text: an opening brace, a body, a closing brace
JsonValid(s) == Len(s) = 3 /\ s[1] = "{" /\ s[2] \in JsonBodies /\ s[3] = "}"

JsonParse(s) == JsonObject(s[2])

\* ------------------------------------------------------------- formatApiError

NoError == [name |-> "", message |-> <<>>]

AbortError == [name |-> "AbortError", message |-> <<"The", "user", "aborted", "a", "request.">>]

FailedToFetch == [name |-> "TypeError", message |-> <<"Failed", "to", "fetch">>]

NetworkError == [name |-> "TypeError", message |-> <<"network", "error">>]

NoResponseBody == [name |-> "Error", message |-> <<"No", "response", "body">>]

\* new Error(`HTTP error! status: ${response.status}`)
HttpError(status) == [name |-> "Error", message |-> <<"HTTP", "error!", "status:", status>>]

formatApiError(error) ==
    IF error.name = "AbortError" THEN <<"Request was cancelled.">>
    ELSE IF Includes(error.message, <<"Failed", "to", "fetch">>)
        THEN <<"Cannot connect to the backend. Make sure the server is running at http://127.0.0.1:8000">>
    ELSE IF Includes(error.message, <<"Ollama">>)
        THEN <<"Cannot connect to Ollama. Make sure Ollama is running with a model loaded.">>
    ELSE IF Includes(error.message, <<"HTTP", "500">>)
        THEN <<"Server error. Check the backend logs for details.">>
    ELSE IF Includes(error.message, <<"HTTP", "404">>)
        THEN <<"API endpoint not found. Make sure you're using the correct backend version.">>
    ELSE IF error.message # <<>> THEN error.message
    ELSE <<"An unexpected error occurred.">>

\* ------------------------------------------------------------- messages

UserMessage(id, content) ==
    [id |-> id, type |-> "user", content |-> content,
     isStreaming |-> FALSE, suggestions |-> NoSuggestions]

\* A placeholder that is not streaming: what sendMessage does not append.
AssistantMessageSettled(id) ==
    [id |-> id, type |-> "assistant", content |-> <<>>, isStreaming |-> FALSE,
     suggestions |-> NoSuggestions]

AssistantMessage(id) ==
    [id |-> id, type |-> "assistant", content |-> <<>>,
     isStreaming |-> TRUE, suggestions |-> NoSuggestions]

\* A done update that attaches the suggestions and leaves the turn streaming.
MarkDoneStreaming(prev, assistantMessageId) ==
    [i \in DOMAIN prev |->
        IF prev[i].id = assistantMessageId
        THEN [prev[i] EXCEPT !.suggestions = SuccessSuggestions]
        ELSE prev[i]]

\* prev.map(msg => msg.id === assistantMessageId
\*   ? {...msg, isStreaming: false, suggestions: [success set]} : msg)
MarkDone(prev, assistantMessageId) ==
    [i \in DOMAIN prev |->
        IF prev[i].id = assistantMessageId
        THEN [prev[i] EXCEPT !.isStreaming = FALSE, !.suggestions = SuccessSuggestions]
        ELSE prev[i]]

\* A chunk update that marks the turn as streaming again.
SetContentStreaming(prev, assistantMessageId, accumulatedContent) ==
    [i \in DOMAIN prev |->
        IF prev[i].id = assistantMessageId
        THEN [prev[i] EXCEPT !.content = accumulatedContent, !.isStreaming = TRUE]
        ELSE prev[i]]

\* prev.map(msg => msg.id === assistantMessageId
\*   ? {...msg, content: accumulatedContent} : msg)
SetContent(prev, assistantMessageId, accumulatedContent) ==
    [i \in DOMAIN prev |->
        IF prev[i].id = assistantMessageId
        THEN [prev[i] EXCEPT !.content = accumulatedContent]
        ELSE prev[i]]

\* An outer catch that puts the turn back when it is no longer in the list.
SetErrorInsert(prev, assistantMessageId, errorMessage) ==
    IF \E i \in DOMAIN prev : prev[i].id = assistantMessageId
    THEN [i \in DOMAIN prev |->
            IF prev[i].id = assistantMessageId
            THEN [prev[i] EXCEPT !.content = errorMessage, !.isStreaming = FALSE,
                                 !.suggestions = ErrorSuggestions]
            ELSE prev[i]]
    ELSE Append(prev, [id |-> assistantMessageId, type |-> "assistant",
                       content |-> errorMessage, isStreaming |-> FALSE,
                       suggestions |-> ErrorSuggestions])

\* An outer catch that writes the error into every assistant turn, whatever its id.
SetErrorAll(prev, assistantMessageId, errorMessage) ==
    [i \in DOMAIN prev |->
        IF prev[i].type = "assistant"
        THEN [prev[i] EXCEPT !.content = errorMessage, !.isStreaming = FALSE,
                             !.suggestions = ErrorSuggestions]
        ELSE prev[i]]

\* the update of the outer catch
SetError(prev, assistantMessageId, errorMessage) ==
    [i \in DOMAIN prev |->
        IF prev[i].id = assistantMessageId
        THEN [prev[i] EXCEPT !.content = errorMessage, !.isStreaming = FALSE,
                             !.suggestions = ErrorSuggestions]
        ELSE prev[i]]

\* A stopGeneration that removes the streaming turns instead of marking them.
StopStreamingDrop(prev) == SelectSeq(prev, LAMBDA msg : ~msg.isStreaming)

\* prev.map(msg => msg.isStreaming ? {...msg, isStreaming: false} : msg)
StopStreaming(prev) ==
    [i \in DOMAIN prev |->
        IF prev[i].isStreaming THEN [prev[i] EXCEPT !.isStreaming = FALSE] ELSE prev[i]]

\* ------------------------------------------------------------- the read loop

\* What a step of the loop hands on: ctl is "next" (go on with the next line),
\* "break" (leave the for loop) or "throw" (err is thrown).
Step(ctl, acc, msgs, err) == [ctl |-> ctl, acc |-> acc, msgs |-> msgs, err |-> err]

\* A decoder that keeps the last chunk only.
AccumulateLast(accumulatedContent, chunk) == chunk

\* accumulatedContent += data.chunk
Accumulate(accumulatedContent, chunk) == accumulatedContent \o chunk

\* The body of the inner try once JSON.parse has returned data.
HandleData(data, acc, msgs, aid) ==
    IF data.error # <<>>
    THEN Step("throw", acc, msgs, [name |-> "Error", message |-> data.error])
    ELSE IF data.done
    THEN Step("break", acc, MarkDone(msgs, aid), NoError)
    ELSE IF data.chunk # <<>>
    THEN Step("next", Accumulate(acc, data.chunk),
              SetContent(msgs, aid, Accumulate(acc, data.chunk)), NoError)
    ELSE Step("next", acc, msgs, NoError)

\* An inner catch that lets the error through to the outer catch.
InnerCatchRethrow(thrown) == thrown

\* catch (parseError) { console.warn(...) }: whatever the inner try throws is
\* logged, and the for loop goes on with the next line.
InnerCatch(thrown) == Step("next", thrown.acc, thrown.msgs, NoError)

\* try { const data = JSON.parse(dataStr); ... } catch (parseError) { ... }
TryRecord(dataStr, acc, msgs, aid) ==
    LET r == IF JsonValid(dataStr)
             THEN HandleData(JsonParse(dataStr), acc, msgs, aid)
             ELSE Step("throw", acc, msgs, [name |-> "SyntaxError", message |-> <<"Unexpected", "token">>])
    IN  IF r.ctl = "throw" THEN InnerCatch(r) ELSE r

DataPrefix == <<"data:", " ">>

\* One pass of the body of `for (const line of lines)`.
ProcessLine(line, acc, msgs, aid) ==
    LET trimmedLine == Trim(line)
    IN  IF trimmedLine = <<>> THEN Step("next", acc, msgs, NoError)
        ELSE IF StartsWith(trimmedLine, DataPrefix)
        THEN TryRecord(SubSeq(trimmedLine, Len(DataPrefix) + 1, Len(trimmedLine)), acc, msgs, aid)
        ELSE Step("next", acc, msgs, NoError)

RECURSIVE ProcessLines(_, _, _, _)
\* for (const line of lines) { ... }: ends at the last line, at a break or at a throw
ProcessLines(lines, acc, msgs, aid) ==
    IF lines = <<>> THEN Step("next", acc, msgs, NoError)
    ELSE LET s == ProcessLine(Head(lines), acc, msgs, aid)
         IN  IF s.ctl = "next" THEN ProcessLines(Tail(lines), s.acc, s.msgs, aid)
             ELSE s

\* const lines = chunk.split("\n"); for (const line of lines) ...
\* The break of the done branch leaves the for loop: the while loop reads on.
ProcessChunk(chunk, acc, msgs, aid) ==
    LET s == ProcessLines(SplitLines(chunk, <<>>), acc, msgs, aid)
    IN  IF s.ctl = "break" THEN Step("next", s.acc, s.msgs, NoError) ELSE s

\* ------------------------------------------------------------- the server

\* The event lines a backend may send.
Kinds == {"chunkA", "chunkB", "done", "error", "malformed", "blank"}

\* The wire text of one event line, `data: <json>\n`; "malformed" is the line
\* `data: {not json`, "blank" a line of whitespace.
LineOf(kind) ==
    CASE kind = "chunkA" -> DataPrefix \o <<"{", "chunk:a", "}", "\n">>
      [] kind = "chunkB" -> DataPrefix \o <<"{", "chunk:b", "}", "\n">>
      [] kind = "done" -> DataPrefix \o <<"{", "done:true", "}", "\n">>
      [] kind = "error" -> DataPrefix \o <<"{", "error:overloaded", "}", "\n">>
      [] kind = "malformed" -> DataPrefix \o <<"{", "not json", "\n">>
      [] kind = "blank" -> <<" ", "\n">>

RECURSIVE WireOf(_)
\* The response body of a stream of event lines.
WireOf(kinds) == IF kinds = <<>> THEN <<>> ELSE LineOf(Head(kinds)) \o WireOf(Tail(kinds))

SeqsUpTo(S, n) == UNION {[1..m -> S] : m \in 0..n}

\* The streams of the decoder specification: every stream of at most MaxRecs lines.
Streams == SeqsUpTo(Kinds, MaxRecs)

\* The streams of the session specification.
SessionKinds == {"chunkA", "done"}

SessionStreams == SeqsUpTo(SessionKinds, MaxSessionRecs)

\* The texts a user sends.
UserTexts == {<<"q">>}

\* What a caller of the hook may pass to sendMessage: sendMessage takes any
\* string, a blank one too.
CallTexts == UserTexts \cup {<<" ">>}

\* ------------------------------------------------------------- state

Requests == 1..MaxSends

\* pc: "idle" (not called yet), "fetch" (awaiting fetch), "read" (awaiting
\* reader.read()), "end" (the async function has returned).
\* aid: assistantMessageId.  aborted: the signal of the call's AbortController.
\* acc: accumulatedContent.  wire, pos: the text of the response body, and how
\* much of it has been read.  The locals of a call that has returned are gone.
IdleRequest ==
    [pc |-> "idle", aid |-> 0, aborted |-> FALSE, acc |-> <<>>, wire |-> <<>>, pos |-> 0]

\* The history of a call, kept by the one-request specification SpecStream (the
\* session specification Spec leaves it as it starts).
\* stream: the event lines of the response.  cut: some read ended in the middle
\* of a line.  outcome: "closed" (the body ended), "refused" (no usable response),
\* "broken" (the connection broke while the body was read), "" otherwise.
NothingSent == [stream |-> <<>>, cut |-> FALSE, outcome |-> ""]

Init ==
    /\ messages = <<>>
    /\ isLoading = FALSE
    /\ abortControllerRef = 0
    /\ req = [r \in Requests |-> IdleRequest]
    /\ nSends = 0
    /\ now = 0
    /\ sent = [r \in Requests |-> NothingSent]
    /\ rendered = <<>>
    /\ history = [r \in Requests |-> <<>>]
    /\ availableModels = {}
    /\ selectedModel = ""
    /\ modelsPc = "pending"

Live(r) == req[r].pc \in {"fetch", "read"}

\* abortControllerRef.current.abort(), when the ref is not null
AbortCurrent(rq) ==
    IF abortControllerRef # 0
    THEN [rq EXCEPT ![abortControllerRef].aborted = TRUE]
    ELSE rq

\* ------------------------------------------------------------- sendMessage

\* sendMessage(content), up to its first await (the fetch), gap milliseconds
\* after the previous call; the clock starts at the first call.
\* The history it puts in the payload changes nothing in the session: it is
\* followed by SendRendered.
SendMessage(content, gap) ==
    /\ nSends < MaxSends
    /\ nSends = 0 => gap = 0
    /\ LET r == nSends + 1
           t == now + gap
           assistantMessageId == t + 1
       IN  /\ now' = t
           /\ nSends' = r
           /\ messages' = messages \o <<UserMessage(t, content)>>
                                   \o <<AssistantMessage(assistantMessageId)>>
           /\ isLoading' = TRUE
           /\ req' = [AbortCurrent(req) EXCEPT
                        ![r] = [IdleRequest EXCEPT !.pc = "fetch", !.aid = assistantMessageId]]
           /\ abortControllerRef' = r

\* The call has returned: what is left of it is the id it gave its turn.
Returned(rq) == [IdleRequest EXCEPT !.pc = "end", !.aid = rq.aid]

\* catch (error) { setMessages(... formatApiError(error) ...) }
OuterCatch(msgs, aid, error) == SetError(msgs, aid, formatApiError(error))

\* The way out of sendMessage through the outer catch and the finally.
Fail(r, msgs, error) ==
    /\ messages' = OuterCatch(msgs, req[r].aid, error)
    /\ isLoading' = FALSE
    /\ abortControllerRef' = 0
    /\ req' = [req EXCEPT ![r] = Returned(req[r])]
    /\ UNCHANGED <<nSends, now>>

\* The fetch of call r resolves with a 2xx response whose body will carry stream.
FetchOk(r, stream) ==
    /\ req[r].pc = "fetch"
    /\ ~req[r].aborted
    /\ req' = [req EXCEPT ![r].pc = "read", ![r].wire = WireOf(stream)]
    /\ UNCHANGED <<messages, isLoading, abortControllerRef, nSends, now>>

\* The fetch of call r rejects, or resolves with a response the code refuses:
\* how is "failed" (no connection), "500", "404" (!response.ok) or "nobody".
FetchFail(r, how) ==
    /\ req[r].pc = "fetch"
    /\ ~req[r].aborted
    /\ Fail(r, messages,
            CASE how = "failed" -> FailedToFetch
              [] how = "nobody" -> NoResponseBody
              [] OTHER -> HttpError(how))

\* The await of an aborted call (the fetch or reader.read()) rejects with AbortError.
\* abort() only signals: the rejection is handled in a later step of its own.
AbortRejected(r) ==
    /\ Live(r)
    /\ req[r].aborted
    /\ Fail(r, messages, AbortError)

\* The last delivered token ends a line.
AtLineEnd(wire, pos) == pos = 0 \/ wire[pos] = "\n"

\* reader.read() of call r resolves with the next n tokens of the body, and the
\* loop body runs on them.
Read(r, n) ==
    /\ req[r].pc = "read"
    /\ ~req[r].aborted
    /\ n \in 1..(Len(req[r].wire) - req[r].pos)
    /\ LET chunk == SubSeq(req[r].wire, req[r].pos + 1, req[r].pos + n)
           s == ProcessChunk(chunk, req[r].acc, messages, req[r].aid)
       IN  IF s.ctl = "throw"
           THEN Fail(r, s.msgs, s.err)
           ELSE /\ messages' = s.msgs
                /\ req' = [req EXCEPT ![r].acc = s.acc, ![r].pos = @ + n]
                /\ UNCHANGED <<isLoading, abortControllerRef, nSends, now>>

\* reader.read() resolves with done: the loop is left, and the finally runs.
ReadDone(r) ==
    /\ req[r].pc = "read"
    /\ ~req[r].aborted
    /\ req[r].pos = Len(req[r].wire)
    /\ isLoading' = FALSE
    /\ abortControllerRef' = 0
    /\ req' = [req EXCEPT ![r] = Returned(req[r])]
    /\ UNCHANGED <<messages, nSends, now>>

\* reader.read() rejects: the connection broke while the body was read.
ReadError(r) ==
    /\ req[r].pc = "read"
    /\ ~req[r].aborted
    /\ Fail(r, messages, NetworkError)

\* ------------------------------------------------------------- clearChat, stopGeneration

ClearChat ==
    /\ req' = AbortCurrent(req)
    /\ messages' = <<>>
    /\ isLoading' = FALSE
    /\ UNCHANGED <<abortControllerRef, nSends, now>>

StopGeneration ==
    /\ req' = AbortCurrent(req)
    /\ isLoading' = FALSE
    /\ messages' = StopStreaming(messages)
    /\ UNCHANGED <<abortControllerRef, nSends, now>>

\* ------------------------------------------------------------- specifications

\* The lengths of the reads that end at the end of a line.
WholeLines(r) ==
    {n \in 1..(Len(req[r].wire) - req[r].pos) : AtLineEnd(req[r].wire, req[r].pos + n)}

Send ==
    /\ \E content \in UserTexts, gap \in 0..MaxGap : SendMessage(content, gap)
    /\ UNCHANGED <<sent, rendered, history, modelVars>>

Respond ==
    /\ \E r \in Requests :
        req[r].pc = "fetch" /\ \E stream \in SessionStreams : FetchOk(r, stream)
    /\ UNCHANGED <<sent, rendered, history, modelVars>>

Refuse ==
    /\ \E r \in Requests : FetchFail(r, "failed")
    /\ UNCHANGED <<sent, rendered, history, modelVars>>

Cancelled ==
    /\ \E r \in Requests : AbortRejected(r)
    /\ UNCHANGED <<sent, rendered, history, modelVars>>

Deliver ==
    /\ \E r \in Requests : req[r].pc = "read" /\ \E n \in WholeLines(r) : Read(r, n)
    /\ UNCHANGED <<sent, rendered, history, modelVars>>

Close ==
    /\ \E r \in Requests : ReadDone(r)
    /\ UNCHANGED <<sent, rendered, history, modelVars>>

Clear == ClearChat /\ UNCHANGED <<sent, rendered, history, modelVars>>

Stop == StopGeneration /\ UNCHANGED <<sent, rendered, history, modelVars>>

\* The session: any interleaving of the operations and the events of the requests,
\* the server delivering whole lines.
Next ==
    \/ Send
    \/ Respond
    \/ Refuse
    \/ Cancelled
    \/ Deliver
    \/ Close
    \/ Clear
    \/ Stop

Spec == Init /\ [][Next]_vars

SendOnce ==
    /\ nSends = 0
    /\ \E content \in CallTexts : SendMessage(content, 0)
    /\ UNCHANGED <<sent, rendered, history, modelVars>>

RespondAny ==
    \E r \in Requests :
        /\ req[r].pc = "fetch"
        /\ \E stream \in Streams :
            /\ FetchOk(r, stream)
            /\ sent' = [sent EXCEPT ![r].stream = stream]
            /\ UNCHANGED <<rendered, history, modelVars>>

RefuseAny ==
    \E r \in Requests, how \in {"failed", "500", "404", "nobody"} :
        /\ FetchFail(r, how)
        /\ sent' = [sent EXCEPT ![r].outcome = "refused"]
        /\ UNCHANGED <<rendered, history, modelVars>>

DeliverAny ==
    \E r \in Requests :
        /\ req[r].pc = "read"
        /\ \E n \in 1..(Len(req[r].wire) - req[r].pos) :
            /\ Read(r, n)
            /\ sent' = [sent EXCEPT ![r].cut = @ \/ ~AtLineEnd(req[r].wire, req[r].pos + n)]
            /\ UNCHANGED <<rendered, history, modelVars>>

CloseStream ==
    \E r \in Requests :
        /\ ReadDone(r)
        /\ sent' = [sent EXCEPT ![r].outcome = "closed"]
        /\ UNCHANGED <<rendered, history, modelVars>>

BreakStream ==
    \E r \in Requests :
        /\ ReadError(r)
        /\ sent' = [sent EXCEPT ![r].outcome = "broken"]
        /\ UNCHANGED <<rendered, history, modelVars>>

\* One request: any response, any stream of event lines, cut into reads anywhere.
NextStream ==
    \/ SendOnce
    \/ RespondAny
    \/ RefuseAny
    \/ DeliverAny
    \/ CloseStream
    \/ BreakStream

SpecStream == Init /\ [][NextStream]_vars

\* messages.map(msg => ({role: msg.type === "user" ? "user" : "assistant",
\*                       content: msg.content}))
History(msgs) ==
    [i \in DOMAIN msgs |->
        [role |-> IF msgs[i].type = "user" THEN "user" ELSE "assistant",
         content |-> msgs[i].content]]

\* sendMessage with the payload it builds: the callback was created by the last
\* render (useCallback, deps [messages, selectedModel]) and its messages are the
\* messages of that render.
SendRendered ==
    /\ nSends < MaxRenderedSends
    /\ \E content \in UserTexts, gap \in 0..MaxGap : SendMessage(content, gap)
    /\ history' = [history EXCEPT ![nSends + 1] = History(rendered)]
    /\ UNCHANGED <<sent, rendered, modelVars>>

\* The component renders with the state as updated so far: the sendMessage it
\* hands out from now on closes over these messages.
Render ==
    /\ rendered # messages
    /\ rendered' = messages
    /\ UNCHANGED <<messages, isLoading, abortControllerRef, req, nSends, now, sent, history,
                   modelVars>>

\* The session with its renders: a state update and the render that follows it
\* are two steps, and a call may come between them.
NextRender ==
    \/ SendRendered
    \/ Render
    \/ Respond
    \/ Refuse
    \/ Cancelled
    \/ Deliver
    \/ Close
    \/ Clear
    \/ Stop

SpecRender == Init /\ [][NextRender]_vars

\* ------------------------------------------------------------- the model selection

\* The state of the chat session, which the model selection leaves alone.
sessionVars == <<messages, isLoading, abortControllerRef, req, nSends, now, sent, rendered, history>>

ModelNames == {"mistral:7b", "llama3:8b"}

\* What the models endpoint answers: data.models (absent: the empty list) and
\* data.default (absent: the empty string).
ModelsData ==
    {[models |-> ModelNames, default |-> "mistral:7b"],
     [models |-> ModelNames, default |-> ""]}

\* The selectedModel the mount effect reads: the effect has no dependencies, so
\* its fetchModels closes over the value of the first render, useState("").
MountSelectedModel == ""

\* The models response arrives and is ok.
FetchModelsOk(data) ==
    /\ modelsPc = "pending"
    /\ availableModels' = data.models
    /\ selectedModel' =
        IF MountSelectedModel = "" /\ data.default # "" THEN data.default ELSE selectedModel
    /\ modelsPc' = "done"

\* The models fetch fails, or its response is not ok: console.error, nothing set.
FetchModelsFail ==
    /\ modelsPc = "pending"
    /\ modelsPc' = "done"
    /\ UNCHANGED <<availableModels, selectedModel>>

\* setSelectedModel(model), which the hook returns to its caller.
SetSelectedModel(model) ==
    /\ selectedModel' = model
    /\ UNCHANGED <<availableModels, modelsPc>>

ModelsArrive ==
    /\ \E data \in ModelsData : FetchModelsOk(data)
    /\ UNCHANGED sessionVars

ModelsFail == FetchModelsFail /\ UNCHANGED sessionVars

SelectModel ==
    /\ \E model \in ModelNames : SetSelectedModel(model)
    /\ UNCHANGED sessionVars

\* One request, and beside it the model list refresh and the user's selection.
NextModels ==
    \/ ModelsArrive
    \/ ModelsFail
    \/ SelectModel
    \/ SendOnce
    \/ RespondAny
    \/ RefuseAny
    \/ DeliverAny
    \/ CloseStream
    \/ BreakStream

SpecModels == Init /\ [][NextModels]_vars

\* ------------------------------------------------------------- ChatPanel

\* The suggestions of the welcome message, shown while the list is empty.
WelcomeSuggestions ==
    <<"Analyze my codebase", "Search my documents", "Execute a script", "Create a reminder">>

\* What the user may have typed into the ChatInput.
InputTexts == UserTexts \cup {<<" ">>, <<" ", "q">>}

\* ChatInput.handleSubmit, the panel passing disabled = isLoading:
\* if (message.trim() && !disabled) onSendMessage(message.trim())
HandleSubmit(message, gap) ==
    /\ nSends < MaxPanelSends
    /\ Trim(message) # <<>>
    /\ ~isLoading
    /\ SendMessage(Trim(message), gap)

\* A click on a suggestion button of the welcome message, rendered while
\* messages.length === 0.
ClickWelcome(k, gap) ==
    /\ nSends < MaxPanelSends
    /\ messages = <<>>
    /\ SendMessage(<<WelcomeSuggestions[k]>>, gap)

\* A click on the k-th suggestion button of turn i: ChatMessage renders the
\* buttons when suggestions.length > 0 && !isStreaming.
ClickSuggestion(i, k, gap) ==
    /\ nSends < MaxPanelSends
    /\ Len(messages[i].suggestions) > 0
    /\ ~messages[i].isStreaming
    /\ SendMessage(<<messages[i].suggestions[k]>>, gap)

\* The New Chat button, disabled = isLoading.
HandleNewChat == ~isLoading /\ ClearChat

\* The Stop button, rendered while isLoading.
HandleStopGeneration == isLoading /\ StopGeneration

Submit ==
    /\ \E message \in InputTexts, gap \in 0..MaxGap : HandleSubmit(message, gap)
    /\ UNCHANGED <<sent, rendered, history, modelVars>>

Welcome ==
    /\ \E k \in DOMAIN WelcomeSuggestions, gap \in 0..MaxGap : ClickWelcome(k, gap)
    /\ UNCHANGED <<sent, rendered, history, modelVars>>

Suggest ==
    /\ \E i \in DOMAIN messages :
        \E k \in DOMAIN messages[i].suggestions, gap \in 0..MaxGap : ClickSuggestion(i, k, gap)
    /\ UNCHANGED <<sent, rendered, history, modelVars>>

NewChat == HandleNewChat /\ UNCHANGED <<sent, rendered, history, modelVars>>

StopClick == HandleStopGeneration /\ UNCHANGED <<sent, rendered, history, modelVars>>

\* The session as the ChatPanel drives it: the operations are reached through
\* the controls of the panel only, each enabled as the panel renders it.
NextPanel ==
    \/ Submit
    \/ Welcome
    \/ Suggest
    \/ NewChat
    \/ StopClick
    \/ Respond
    \/ Refuse
    \/ Cancelled
    \/ Deliver
    \/ Close

SpecPanel == Init /\ [][NextPanel]_vars

\* ------------------------------------------------------------- what the claims speak of

\* The positions of the turns call r updates: those whose id is its assistantMessageId.
TurnsOf(r) == {i \in DOMAIN messages : messages[i].id = req[r].aid}

StreamingTurns == {i \in DOMAIN messages : messages[i].isStreaming}

\* Requests opened, not ended and not cancelled.
ActiveRequests == {r \in Requests : Live(r) /\ ~req[r].aborted}

\* The whole response body of call r has been read (and not through a broken connection).
Consumed(r) ==
    /\ \/ req[r].pc = "end"
       \/ req[r].pc = "read" /\ req[r].pos = Len(req[r].wire)
    /\ sent[r].outcome \notin {"refused", "broken"}

\* The text a chunk record carries, read off the record and not off the decoder.
ChunkText(kind) ==
    CASE kind = "chunkA" -> <<"a">>
      [] kind = "chunkB" -> <<"b">>
      [] OTHER -> <<>>

RECURSIVE ConcatChunks(_)
\* c1 + ... + cn over the chunk records of a stream, in the order sent
ConcatChunks(stream) ==
    IF stream = <<>> THEN <<>> ELSE ChunkText(Head(stream)) \o ConcatChunks(Tail(stream))

ChunkKinds == {"chunkA", "chunkB"}

\* c1 .. cn followed by a done record
ChunksThenDone(stream) ==
    /\ stream # <<>>
    /\ stream[Len(stream)] = "done"
    /\ \A k \in 1..(Len(stream) - 1) : stream[k] \in ChunkKinds

\* The position of the first done or error record of a stream, 0 if it has none.
FirstTerminal(stream) ==
    IF \E k \in DOMAIN stream : stream[k] \in {"done", "error"}
    THEN CHOOSE k \in DOMAIN stream :
            /\ stream[k] \in {"done", "error"}
            /\ \A j \in 1..(k - 1) : stream[j] \notin {"done", "error"}
    ELSE 0

\* The text of the error record the backend sends.
ErrorRecordText == <<"overloaded">>

\* ------------------------------------------------------------- C1

\* C1: in every reachable state of a session at most one turn of the message
\* list has isStreaming = true.
C1_AtMostOneStreaming == Cardinality(StreamingTurns) <= 1

\* ------------------------------------------------------------- C2

\* C2: at most one chat request is active (opened, not ended, not cancelled) at
\* any time, for any sequence of sendMessage calls.
C2_SingleFlight == Cardinality(ActiveRequests) <= 1

\* ------------------------------------------------------------- C3

C4_ErrorRecordStops ==
    \A r \in Requests :
        (/\ Consumed(r) /\ ~sent[r].cut
         /\ FirstTerminal(sent[r].stream) # 0
         /\ sent[r].stream[FirstTerminal(sent[r].stream)] = "error") =>
            \A i \in TurnsOf(r) :
                /\ messages[i].content = ErrorRecordText
                /\ ~messages[i].isStreaming
                /\ messages[i].suggestions = ErrorSuggestions

\* ------------------------------------------------------------- C5

RECURSIVE LineByLine(_, _, _, _)
\* The loop run on a stream whose every line arrives whole, one line a read.
LineByLine(stream, acc, msgs, aid) ==
    IF stream = <<>> THEN Step("next", acc, msgs, NoError)
    ELSE LET s == ProcessChunk(LineOf(Head(stream)), acc, msgs, aid)
         IN  IF s.ctl = "throw" THEN s
             ELSE LineByLine(Tail(stream), s.acc, s.msgs, aid)

\* No record follows a done record.
NothingAfterDone(stream) == \A k \in 1..(Len(stream) - 1) : stream[k] # "done"

\* C5: however the body is cut into reads, once it has been read the assistant
\* turn is the one obtained when every line arrives whole.
C5_CutInvariant ==
    \A r \in Requests :
        (Consumed(r) /\ NothingAfterDone(sent[r].stream)) =>
            \A i \in TurnsOf(r) :
                messages[i] =
                    LineByLine(sent[r].stream, <<>>,
                               <<AssistantMessage(req[r].aid)>>, req[r].aid).msgs[1]

\* ------------------------------------------------------------- C6

\* Call r has been cancelled and has not yet handled it, and stopGeneration has
\* marked its turn: an assistant turn leaves isStreaming = true without
\* suggestions through stopGeneration alone.
StoppedByUser(r) ==
    /\ Live(r)
    /\ req[r].aborted
    /\ \E i \in TurnsOf(r) :
        /\ messages[i].type = "assistant"
        /\ ~messages[i].isStreaming
        /\ messages[i].suggestions = NoSuggestions

\* C6: the turn that stopGeneration has stopped keeps its accumulated content,
\* isStreaming = false and no suggestions through the cancelled request's own
\* completion handling.
C6_StopKeepsText ==
    [][\A r \in Requests :
        (StoppedByUser(r) /\ AbortRejected(r)) =>
            \A i \in TurnsOf(r) :
                /\ i \in DOMAIN messages'
                /\ messages'[i].content = messages[i].content
                /\ ~messages'[i].isStreaming
                /\ messages'[i].suggestions = NoSuggestions]_vars

\* ------------------------------------------------------------- C7

\* C7: clearChat empties the message list, sets loading to false and cancels
\* the request that is in flight at that moment.
C7_ClearCancels ==
    [][ClearChat =>
        /\ messages' = <<>>
        /\ ~isLoading'
        /\ \A r \in Requests : Live(r) => req'[r].aborted]_vars

\* ------------------------------------------------------------- C8

\* The stream without its last record, when that is a done record.
BeforeDone(stream) ==
    IF stream # <<>> /\ stream[Len(stream)] = "done"
    THEN SubSeq(stream, 1, Len(stream) - 1)
    ELSE stream

\* Chunk records with malformed lines among them, and possibly a final done record.
ChunksAndMalformed(stream) ==
    /\ \A k \in DOMAIN BeforeDone(stream) : stream[k] \in ChunkKinds \cup {"malformed"}
    /\ \E k \in DOMAIN stream : stream[k] = "malformed"

C9_SilentClose ==
    \A r \in Requests :
        (sent[r].outcome = "closed" /\ FirstTerminal(sent[r].stream) = 0) =>
            \A i \in TurnsOf(r) :
                /\ ~messages[i].isStreaming
                /\ messages[i].suggestions = NoSuggestions
                /\ ~sent[r].cut => messages[i].content = ConcatChunks(sent[r].stream)

\* ------------------------------------------------------------- C10

\* C10: when the first done or error record of a stream is a done record, the
\* turn is left as that record made it, whatever records follow: the content of
\* the chunks before it, isStreaming = false, the success suggestions.
C10_DoneIsFinal ==
    \A r \in Requests :
        (/\ Consumed(r) /\ ~sent[r].cut
         /\ FirstTerminal(sent[r].stream) # 0
         /\ sent[r].stream[FirstTerminal(sent[r].stream)] = "done") =>
            \A i \in TurnsOf(r) :
                /\ messages[i].content =
                    ConcatChunks(SubSeq(sent[r].stream, 1, FirstTerminal(sent[r].stream) - 1))
                /\ ~messages[i].isStreaming
                /\ messages[i].suggestions = SuccessSuggestions

\* ------------------------------------------------------------- C11

\* The position of the assistant turn call r appended. The list holds the turns
\* of the latest calls only, two a call, so the position counts back from its end;
\* it is below 1 when clearChat has removed the turn.
PlaceholderOf(r) == Len(messages) - 2 * (nSends - r)

\* Call r has been cancelled by a later sendMessage and has not yet handled it:
\* its turn is still there and still streaming (stopGeneration would have marked
\* it, clearChat removed it).
Superseded(r) ==
    /\ Live(r)
    /\ req[r].aborted
    /\ r < nSends
    /\ PlaceholderOf(r) \in DOMAIN messages
    /\ messages[PlaceholderOf(r)].isStreaming

\* C11: the turn of a request that a later sendMessage has superseded is
\* finalized as a cancellation by the request's own completion handling:
\* isStreaming = false, the content accumulated before the cancellation, no
\* suggestions.
C11_SupersededIsCancelled ==
    [][\A r \in Requests :
        (Superseded(r) /\ AbortRejected(r)) =>
            /\ ~messages'[PlaceholderOf(r)].isStreaming
            /\ messages'[PlaceholderOf(r)].content = req[r].acc
            /\ messages'[PlaceholderOf(r)].suggestions = NoSuggestions]_vars

\* ------------------------------------------------------------- C12

\* The message the user is to see for each kind of transport failure.
MessageFor(how) ==
    CASE how = "failed" ->
            <<"Cannot connect to the backend. Make sure the server is running at http://127.0.0.1:8000">>
      [] how = "500" -> <<"Server error. Check the backend logs for details.">>
      [] how = "404" -> <<"API endpoint not found. Make sure you're using the correct backend version.">>

\* C12: a transport failure of the request ends the assistant turn with the
\* message of its kind (connection failure: backend unreachable, HTTP 500: server
\* error, HTTP 404: endpoint not found), isStreaming = false and the error
\* suggestions.
C12_TransportMessages ==
    [][\A r \in Requests, how \in {"failed", "500", "404"} :
        FetchFail(r, how) =>
            \A i \in TurnsOf(r) :
                /\ messages'[i].content = MessageFor(how)
                /\ ~messages'[i].isStreaming
                /\ messages'[i].suggestions = ErrorSuggestions]_vars

\* ------------------------------------------------------------- C13

\* C13: sendMessage with a non-empty text appends exactly two turns to the end
\* of the message list, the user turn with the text as given and then an
\* assistant placeholder with empty content and isStreaming = true; when the
\* call reaches its fetch nothing of the request has been received yet.
C13_AppendsTwoTurns ==
    [][\A content \in UserTexts, gap \in 0..MaxGap :
        SendMessage(content, gap) =>
            /\ Len(messages') = Len(messages) + 2
            /\ SubSeq(messages', 1, Len(messages)) = messages
            /\ messages'[Len(messages) + 1].type = "user"
            /\ messages'[Len(messages) + 1].content = content
            /\ messages'[Len(messages) + 2].type = "assistant"
            /\ messages'[Len(messages) + 2].content = <<>>
            /\ messages'[Len(messages) + 2].isStreaming
            /\ req'[nSends'].pc = "fetch"
            /\ req'[nSends'].pos = 0
            /\ req'[nSends'].acc = <<>>]_vars

\* A second call has appended its two turns behind an answered first turn, and
\* its fetch has not settled.
C13_Witness ==
    /\ Len(messages) = 4
    /\ messages[2].content # <<>>
    /\ messages[3].type = "user" /\ messages[3].content \in UserTexts
    /\ messages[4].type = "assistant" /\ messages[4].isStreaming
    /\ messages[4].content = <<>>
    /\ req[2].pc = "fetch"

\* ------------------------------------------------------------- C14

\* C14: in every reachable message list no two turns have the same id, whatever
\* the time between two sendMessage calls.
C14_UniqueIds ==
    \A i, j \in DOMAIN messages : i # j => messages[i].id # messages[j].id

\* ------------------------------------------------------------- C15

\* The ids of the turns of a list, in order.
Ids(msgs) == [i \in DOMAIN msgs |-> msgs[i].id]

IsPrefix(s, t) == Len(s) <= Len(t) /\ SubSeq(t, 1, Len(s)) = s

\* C15: every step that is not a clearChat keeps the ids of the existing turns
\* where they are (no turn removed, reordered or duplicated), and only a
\* sendMessage makes the list longer; clearChat removes all the turns at once.
C15_AppendOnly ==
    [][\/ ClearChat /\ messages' = <<>>
       \/ /\ IsPrefix(Ids(messages), Ids(messages'))
          /\ Len(messages') > Len(messages) => nSends' = nSends + 1]_vars

\* Two calls have appended their turns, one has failed and stopGeneration has
\* run on the other: the four turns are there, in the order of their creation.
C15_Witness ==
    /\ Len(messages) = 4
    /\ messages[2].suggestions = ErrorSuggestions
    /\ req[2].aborted /\ ~messages[4].isStreaming
    /\ messages[1].type = "user" /\ messages[3].type = "user"

\* ------------------------------------------------------------- C16

\* C16: a turn with isStreaming = true has no suggestions.
C16_StreamingHasNoSuggestions ==
    \A i \in DOMAIN messages :
        messages[i].isStreaming => messages[i].suggestions = NoSuggestions

\* One turn has been given its suggestions by a done record while the turn of a
\* later call is streaming.
C16_Witness ==
    \E i, j \in DOMAIN messages :
        /\ messages[i].suggestions = SuccessSuggestions /\ ~messages[i].isStreaming
        /\ messages[j].isStreaming /\ messages[j].content # <<>>

\* ------------------------------------------------------------- C17

\* A turn in a terminal state: a user turn, or an assistant turn that is no
\* longer streaming (finalized by done, by the outer catch or by stopGeneration).
Terminal(msg) == ~msg.isStreaming

\* C17: the content of a turn in a terminal state is the same in every later
\* state in which the turn is still in the list.
C17_TerminalContentFrozen ==
    [][\A i \in DOMAIN messages :
        (Terminal(messages[i]) /\ i \in DOMAIN messages') =>
            messages'[i].content = messages[i].content]_vars

\* ------------------------------------------------------------- C18

\* C18: sendMessage with a text that is empty after trimming changes nothing:
\* the message list, the loading flag, the request handle and the requests are
\* as before, and no request is opened.
C18_BlankIsNoOp ==
    [][\A content \in CallTexts, gap \in 0..MaxGap :
        (Trim(content) = <<>> /\ SendMessage(content, gap)) =>
            UNCHANGED <<messages, isLoading, abortControllerRef, req>>]_vars

\* ------------------------------------------------------------- C19

\* Call r fails in this step: its fetch fails, its response is refused, its
\* cancelled await rejects, or the connection breaks while the body is read.
FailureOf(r) ==
    \/ \E how \in {"failed", "500", "404", "nobody"} : FetchFail(r, how)
    \/ AbortRejected(r)
    \/ ReadError(r)

\* C19: whatever the failure of its request, the call returns (its promise
\* resolves), and the failure is recorded in the assistant turn the call created
\* and in no other turn.
C19_FailureStaysLocal ==
    [][\A r \in Requests :
        FailureOf(r) =>
            /\ req'[r].pc = "end"
            /\ \A i \in DOMAIN messages :
                i # PlaceholderOf(r) => messages'[i] = messages[i]]_vars

\* ------------------------------------------------------------- C20

\* C20: the history a call sends is the message list as it was just before the
\* call appended its two turns, turn by turn in order as {role, content}: the
\* two new turns are not in it and no earlier turn is missing or different.
C20_HistoryIsPriorList ==
    [][\A content \in UserTexts, gap \in 0..MaxGap :
        SendMessage(content, gap) => history'[nSends'] = History(messages)]_vars

\* ------------------------------------------------------------- C21

\* C21: in every reachable state in which some request has been opened and has
\* neither ended nor been cancelled, isLoading is true.
C21_LoadingWhileInFlight == ActiveRequests # {} => isLoading

\* ------------------------------------------------------------- C22

\* C22: in every reachable state abortControllerRef holds the controller of the
\* request that is in flight and not cancelled, and it is null only when there
\* is no such request.
C22_HandleDesignatesInFlight == \A r \in ActiveRequests : abortControllerRef = r

\* ------------------------------------------------------------- C23

\* C23: an assistant turn is finalized once: after the update that made it
\* terminal, none of its isStreaming flag, content or suggestions is written
\* again for as long as the turn is in the list.
C23_FinalizedOnce ==
    [][\A i \in DOMAIN messages :
        (/\ messages[i].type = "assistant"
         /\ Terminal(messages[i])
         /\ i \in DOMAIN messages') =>
            messages'[i] = messages[i]]_vars

\* ------------------------------------------------------------- C24

\* No two calls made so far gave a turn the same id: the assistant ids of two
\* calls are at least two apart (a call's user turn has its assistant id - 1).
AllIdsDistinct ==
    \A q, r \in 1..nSends : q < r => req[r].aid >= req[q].aid + 2

\* An event of call r is handled in this step: a read of its body (chunk, done
\* and error records), or a failure that goes through its outer catch.
EventOf(r) ==
    \/ \E n \in 1..(Len(req[r].wire) - req[r].pos) : Read(r, n)
    \/ FailureOf(r)

\* C24: in a session whose turn ids are all distinct, an event of a call changes
\* at most the assistant turn that call created: every other turn is left as it
\* was, no turn is added or removed, and nothing changes when the call's turn is
\* no longer in the list.
C24_EventsHitOwnTurn ==
    [][\A r \in Requests :
        (AllIdsDistinct /\ EventOf(r)) =>
            /\ Len(messages') = Len(messages)
            /\ \A i \in DOMAIN messages :
                i # PlaceholderOf(r) => messages'[i] = messages[i]]_vars

\* With distinct ids, the first of two calls has been superseded and has handled
\* its cancellation while the turn of the second call was streaming text.
C24_Witness ==
    /\ AllIdsDistinct
    /\ nSends = 2 /\ Len(messages) = 4
    /\ req[1].pc = "end" /\ messages[2].suggestions = ErrorSuggestions
    /\ req[2].pc = "read" /\ messages[4].isStreaming /\ messages[4].content # <<>>

\* ------------------------------------------------------------- C25

\* C25: when the models response is processed while a model is selected, the
\* selection stays as it is: the default is taken only if no model is selected.
C25_DefaultOnlyIfNoneSelected ==
    [][\A data \in ModelsData :
        (FetchModelsOk(data) /\ selectedModel # "") =>
            selectedModel' = selectedModel]_vars

\* ------------------------------------------------------------- C26

\* C26: whenever some turn of the message list has isStreaming = true, isLoading
\* is true (and with it the Stop control is shown).
C26_StreamingImpliesLoading == StreamingTurns # {} => isLoading

\* ------------------------------------------------------------- C27

\* C27: through the controls of the ChatPanel, sendMessage is never invoked
\* while isLoading is true.
C27_NoSendWhileLoading == [][nSends' # nSends => ~isLoading]_vars

\* ------------------------------------------------------------- C28

\* C28: once the isStreaming flag of a turn is false, no step sets it back to
\* true for as long as the turn is in the list.
C28_StreamingMonotonic ==
    [][\A i \in DOMAIN messages :
        (~messages[i].isStreaming /\ i \in DOMAIN messages') =>
            ~messages'[i].isStreaming]_vars

\* A turn has been stopped by stopGeneration, and its request has gone on to
\* handle the cancellation: two updates have written the flag, and it is false.
C28_Witness ==
    /\ Len(messages) = 2
    /\ req[1].pc = "end"
    /\ ~messages[2].isStreaming
    /\ messages[2].content = <<"Request was cancelled.">>

\* ------------------------------------------------------------- C29

\* C29: an empty message list stays empty until the next sendMessage, whatever
\* late events of earlier requests are handled; and with distinct ids an event
\* of a request whose turn clearChat has removed leaves the list, and with it
\* the turns of the sends made since, as it is.
C29_ClearedStaysCleared ==
    [][/\ (messages = <<>> /\ nSends' = nSends) => messages' = <<>>
       /\ \A r \in Requests :
            (AllIdsDistinct /\ EventOf(r) /\ PlaceholderOf(r) < 1) =>
                messages' = messages]_vars

\* clearChat came while the first request was in flight, a second call was made,
\* and then the first call handled its cancellation (its finally has cleared
\* the handle of the second): the turn of the second call is as it was created.
C29_Witness ==
    /\ AllIdsDistinct
    /\ nSends = 2 /\ Len(messages) = 2
    /\ req[1].pc = "end"
    /\ req[2].pc = "fetch" /\ ~req[2].aborted
    /\ abortControllerRef = 0
    /\ messages[2] = AssistantMessage(req[2].aid)

====
